---- MODULE Spec2Model ----
(***************************************************************************)
(* State-machine model of dtd::models::GoertlerModel (src/models.hpp,      *)
(* src/models.cc): construction, eval/grad, dim and the three projection   *)
(* operators threshold / norm_constraint / subspace_constraint.            *)
(*                                                                         *)
(* ftype (double) values are modelled exactly.  A value is either NaN or a *)
(* finite sum of terms (n/d)*sqrt(r) with r a squarefree positive integer, *)
(* kept in canonical form (terms sorted by r, no zero coefficient, n/d in  *)
(* lowest terms), so that structural equality is numeric equality.         *)
(***************************************************************************)
EXTENDS Integers, Sequences, FiniteSets

\* ------------------------------------------------------------------ bounds
MaxLen == 2      \* longest vector handed to a projection operator
MaxVal == 2      \* largest magnitude of an entry of such a vector
MaxLambda == 1   \* largest threshold
MaxG == 1        \* largest gene weight
MaxGarbage == 2  \* largest value the uninitialised m_ngenes is seen to hold

\* ------------------------------------------------------- exact arithmetic
Abs(i) == IF i < 0 THEN -i ELSE i

\* the sequence <<F(1), ..., F(n)>>, built entry by entry
MkSeq(n, F(_)) ==
    LET f[k \in 0..n] == IF k = 0 THEN <<>> ELSE Append(f[k - 1], F(k))
    IN  f[n]

RECURSIVE GCD(_, _)
GCD(a, b) == IF b = 0 THEN a ELSE GCD(b, a % b)

\* largest m >= from with m*m dividing r, searching upward while m*m <= r
RECURSIVE SquarePartFrom(_, _, _)
SquarePartFrom(r, m, best) ==
    IF m * m > r THEN best
    ELSE SquarePartFrom(r, m + 1, IF r % (m * m) = 0 THEN m ELSE best)

SquarePart(r) == SquarePartFrom(r, 2, 1)

\* the term (n/d)*sqrt(r), brought to lowest terms and squarefree radicand
Term(n, d, r) ==
    LET m == SquarePart(r)
        nn == n * m
        g == GCD(Abs(nn), Abs(d))
        s == IF d < 0 THEN -1 ELSE 1
    IN  [n |-> s * (nn \div g), d |-> s * (d \div g), r |-> r \div (m * m)]

NaN == [nan |-> TRUE, ts |-> <<>>]
Fin(ts) == [nan |-> FALSE, ts |-> ts]
Zero == Fin(<<>>)
Rat(n, d) == IF n = 0 THEN Zero ELSE Fin(<<Term(n, d, 1)>>)
Num(n) == Rat(n, 1)

\* insert one canonical term into a canonical (sorted by r) term sequence
RECURSIVE AddTerm(_, _)
AddTerm(ts, t) ==
    IF t.n = 0 THEN ts
    ELSE IF ts = <<>> THEN <<t>>
    ELSE LET h == Head(ts) IN
         IF h.r = t.r
         THEN LET s == Term(h.n * t.d + t.n * h.d, h.d * t.d, 1)
              IN  IF s.n = 0 THEN Tail(ts)
                  ELSE <<[n |-> s.n, d |-> s.d, r |-> h.r]>> \o Tail(ts)
         ELSE IF t.r < h.r THEN <<t>> \o ts
         ELSE <<h>> \o AddTerm(Tail(ts), t)

RECURSIVE AddTerms(_, _)
AddTerms(ts, us) ==
    IF us = <<>> THEN ts ELSE AddTerms(AddTerm(ts, Head(us)), Tail(us))

NegTerms(ts) == MkSeq(Len(ts), LAMBDA i : [ts[i] EXCEPT !.n = -ts[i].n])

\* the products of term t with every term of us, as canonical terms
MulTerm(t, us) ==
    MkSeq(Len(us), LAMBDA i : Term(t.n * us[i].n, t.d * us[i].d, t.r * us[i].r))

RECURSIVE MulTerms(_, _)
MulTerms(ts, us) ==
    IF ts = <<>> THEN <<>>
    ELSE AddTerms(MulTerms(Tail(ts), us), MulTerm(Head(ts), us))

\* IEEE: any operation on NaN is NaN
DAdd(a, b) == IF a.nan \/ b.nan THEN NaN ELSE Fin(AddTerms(a.ts, b.ts))
DNeg(a) == IF a.nan THEN NaN ELSE Fin(NegTerms(a.ts))
DSub(a, b) == DAdd(a, DNeg(b))
DMul(a, b) == IF a.nan \/ b.nan THEN NaN ELSE Fin(MulTerms(a.ts, b.ts))

\* 1/((n/d)*sqrt(r)) = (d/(n*r))*sqrt(r)
InvTerm(t) == Term(t.d, t.n * t.r, t.r)

\* a / b.  0/0 is NaN.  The divisors of the code are single terms (a count, a
\* variance, a norm, a product of standard deviations); x/0 with x # 0 (IEEE
\* +-Inf) and a divisor of several terms do not occur in any call modelled
\* here, and the CHOOSE over the empty set stops the check if one ever did.
DDiv(a, b) ==
    IF a.nan \/ b.nan THEN NaN
    ELSE IF b.ts = <<>>
         THEN IF a.ts = <<>> THEN NaN ELSE CHOOSE x \in {} : TRUE
    ELSE IF Len(b.ts) = 1 THEN Fin(MulTerms(a.ts, <<InvTerm(b.ts[1])>>))
    ELSE CHOOSE x \in {} : TRUE

\* sqrt of a non-negative rational; sqrt(NaN) = NaN, sqrt(negative) = NaN
DSqrt(a) ==
    IF a.nan THEN NaN
    ELSE IF a.ts = <<>> THEN Zero
    ELSE IF Len(a.ts) = 1 /\ a.ts[1].r = 1
         THEN IF a.ts[1].n < 0 THEN NaN
              ELSE Fin(<<Term(1, a.ts[1].d, a.ts[1].n * a.ts[1].d)>>)
    ELSE CHOOSE x \in {} : TRUE

\* floor(sqrt(n)) for n >= 0
RECURSIVE ISqrtFrom(_, _)
ISqrtFrom(n, m) == IF (m + 1) * (m + 1) > n THEN m ELSE ISqrtFrom(n, m + 1)

ISqrt(n) == ISqrtFrom(n, 0)

\* common denominator of a term sequence
RECURSIVE DenProd(_)
DenProd(ts) == IF ts = <<>> THEN 1 ELSE Head(ts).d * DenProd(Tail(ts))

\* lower and upper integer bounds of p * sum_i c_i*sqrt(r_i), c_i integer
RECURSIVE SumLo(_, _, _)
SumLo(cs, ts, p) ==
    IF ts = <<>> THEN 0
    ELSE LET c == Head(cs)
             lo == ISqrt(Head(ts).r * p * p)
             hi == IF lo * lo = Head(ts).r * p * p THEN lo ELSE lo + 1
         IN  (IF c > 0 THEN c * lo ELSE c * hi) + SumLo(Tail(cs), Tail(ts), p)

RECURSIVE SumHi(_, _, _)
SumHi(cs, ts, p) ==
    IF ts = <<>> THEN 0
    ELSE LET c == Head(cs)
             lo == ISqrt(Head(ts).r * p * p)
             hi == IF lo * lo = Head(ts).r * p * p THEN lo ELSE lo + 1
         IN  (IF c > 0 THEN c * hi ELSE c * lo) + SumHi(Tail(cs), Tail(ts), p)

\* sign of a nonempty canonical sum: square roots of distinct squarefree
\* integers are linearly independent over the rationals, so the sum is
\* nonzero and interval refinement at growing precision p terminates
RECURSIVE SignAt(_, _, _)
SignAt(cs, ts, p) ==
    IF SumLo(cs, ts, p) > 0 THEN 1
    ELSE IF SumHi(cs, ts, p) < 0 THEN -1
    ELSE SignAt(cs, ts, p * 4)

SignTerms(ts) ==
    IF ts = <<>> THEN 0
    ELSE IF Len(ts) = 1 THEN (IF ts[1].n > 0 THEN 1 ELSE -1)
    ELSE LET D == DenProd(ts)
             cs == MkSeq(Len(ts), LAMBDA i : ts[i].n * (D \div ts[i].d))
         IN  SignAt(cs, ts, 1)

\* a < b on doubles: false when either is NaN
DLess(a, b) ==
    IF a.nan \/ b.nan THEN FALSE ELSE SignTerms(AddTerms(b.ts, NegTerms(a.ts))) = 1

\* std::max(a, b) is (a < b) ? b : a and std::min(a, b) is (b < a) ? b : a
StdMax(a, b) == IF DLess(a, b) THEN b ELSE a
StdMin(a, b) == IF DLess(b, a) THEN b ELSE a
\* std::abs clears the sign; NaN stays NaN
StdAbs(a) == IF DLess(a, Zero) THEN DNeg(a) ELSE a

\* ------------------------------------------------------ vectors, matrices
\* a vec is a sequence of doubles; a mat is a sequence of rows
Rows(m) == Len(m)
Cols(m) == IF Len(m) = 0 THEN 0 ELSE Len(m[1])

RECURSIVE SumSeq(_)
SumSeq(s) == IF s = <<>> THEN Zero ELSE DAdd(Head(s), SumSeq(Tail(s)))

\* ------------------------------------------------------------ the state
\* configuration enumerations (config.hpp); each has the variants the
\* dispatchers name and one further variant
ThresholdFunctions == {"SOFTMAX", "OTHER_THRESHOLD"}
NormFunctions == {"IDENTITY", "NORM2", "OTHER_NORM"}
SubspaceFunctions == {"POSITIVE", "OTHER_SUBSPACE"}

VARIABLES
    ndebug,      \* the build defines NDEBUG: assert() compiles to nothing
    constructed, \* a GoertlerModel exists
    args,        \* the (x, y, c) handed to the constructor
    m_x, m_y, m_c,
    m_ngenes,
    m_threshfn, m_normfn, m_subspfn,
    lltJunk,     \* what a failed LLT leaves in the solution (fixed by the library)
    call,        \* the call in progress: its arguments, outcome and results
    first        \* the first eval or grad call made on the model

vars == <<ndebug, constructed, args, m_x, m_y, m_c, m_ngenes,
          m_threshfn, m_normfn, m_subspfn, lltJunk, call, first>>

model == <<ndebug, constructed, args, m_x, m_y, m_c, m_ngenes,
           m_threshfn, m_normfn, m_subspfn, lltJunk>>

NoCall == [op |-> "none", v |-> <<>>, lam |-> 0, out0 |-> <<>>,
           outcome |-> "none", ret |-> <<>>, vout |-> <<>>, n |-> 0]

\* ------------------------------------------------- projection operators
\* sgn<double>: (0 < x) - (x < 0), an int
sgn(x) == (IF DLess(Zero, x) THEN 1 ELSE 0) - (IF DLess(x, Zero) THEN 1 ELSE 0)

softmax_nosign(v, softfactor) ==
    MkSeq(Len(v), LAMBDA i : StdMax(DSub(StdAbs(v[i]), softfactor), Zero))

softmax(v, softfactor) ==
    MkSeq(Len(v), LAMBDA i :
        DMul(Num(sgn(v[i])), StdMax(DSub(StdAbs(v[i]), softfactor), Zero)))

clampPos(x) == MkSeq(Len(x), LAMBDA i : StdMin(x[i], Zero))

clampNeg(x) == MkSeq(Len(x), LAMBDA i : StdMax(x[i], Zero))

\* Eigen's v.norm(): the square root of the sum of the squared entries
norm(v) == DSqrt(SumSeq(MkSeq(Len(v), LAMBDA i : DMul(v[i], v[i]))))

\* the outcome of each dispatcher: what is thrown or returned, and the
\* caller's vector afterwards
threshold_fallthrough(fn, v, softfactor) ==
    [outcome |-> "ok", ret |-> softmax(v, softfactor), vout |-> v]

threshold(fn, v, softfactor) ==
    IF fn = "SOFTMAX"
    THEN [outcome |-> "ok", ret |-> softmax(v, softfactor), vout |-> v]
    ELSE [outcome |-> "throw", ret |-> <<>>, vout |-> v]

norm_constraint(fn, v) ==
    IF fn = "IDENTITY"
    THEN [outcome |-> "ok", ret |-> <<>>, vout |-> v]
    ELSE IF fn = "NORM2"
    THEN [outcome |-> "ok", ret |-> <<>>,
          vout |-> MkSeq(Len(v), LAMBDA i : DDiv(v[i], norm(v)))]
    ELSE [outcome |-> "throw", ret |-> <<>>, vout |-> v]

subspace_constraint_clampPos(fn, v) ==
    IF fn = "POSITIVE"
    THEN [outcome |-> "ok", ret |-> clampPos(v), vout |-> v]
    ELSE [outcome |-> "throw", ret |-> <<>>, vout |-> v]

subspace_constraint(fn, v) ==
    IF fn = "POSITIVE"
    THEN [outcome |-> "ok", ret |-> clampNeg(v), vout |-> v]
    ELSE [outcome |-> "throw", ret |-> <<>>, vout |-> v]

\* the doubles a caller passes: small integers and NaN
Vals == {Num(i) : i \in (-MaxVal)..MaxVal} \cup {NaN}

RECURSIVE VecsOf(_, _)
VecsOf(S, n) ==
    IF n = 0 THEN {<<>>}
    ELSE {<<x>> \o w : x \in S, w \in VecsOf(S, n - 1)}

Vecs == UNION {VecsOf(Vals, n) : n \in 0..MaxLen}

ThresholdOn(VS) ==
    /\ constructed
    /\ call = NoCall
    /\ \E v \in VS, l \in (-1)..MaxLambda :
          LET r == threshold(m_threshfn, v, Num(l))
          IN  call' = [NoCall EXCEPT !.op = "threshold", !.v = v, !.lam = l,
                          !.outcome = r.outcome, !.ret = r.ret, !.vout = r.vout]
    /\ UNCHANGED <<model, first>>

NormConstraintOn(VS) ==
    /\ constructed
    /\ call = NoCall
    /\ \E v \in VS :
          LET r == norm_constraint(m_normfn, v)
          IN  call' = [NoCall EXCEPT !.op = "norm_constraint", !.v = v,
                          !.outcome = r.outcome, !.ret = r.ret, !.vout = r.vout]
    /\ UNCHANGED <<model, first>>

SubspaceConstraintOn(VS) ==
    /\ constructed
    /\ call = NoCall
    /\ \E v \in VS :
          LET r == subspace_constraint(m_subspfn, v)
          IN  call' = [NoCall EXCEPT !.op = "subspace_constraint", !.v = v,
                          !.outcome = r.outcome, !.ret = r.ret, !.vout = r.vout]
    /\ UNCHANGED <<model, first>>

\* the call has returned (or thrown) and the caller goes on to its next call
Return ==
    /\ call # NoCall
    /\ call' = NoCall
    /\ UNCHANGED <<model, first>>

\* ------------------------------------------------------- linear algebra
Lift(m) == MkSeq(Len(m), LAMBDA i : MkSeq(Len(m[i]), LAMBDA j : Num(m[i][j])))

Transpose(m) ==
    MkSeq(Cols(m), LAMBDA j : MkSeq(Rows(m), LAMBDA i : m[i][j]))

\* a (r x n) times b (n x c); the inner dimension is that of a
MatMul(a, b) ==
    MkSeq(Rows(a), LAMBDA i :
        MkSeq(Cols(b), LAMBDA j :
            SumSeq(MkSeq(Cols(a), LAMBDA k : DMul(a[i][k], b[k][j])))))

MatSub(a, b) ==
    MkSeq(Rows(a), LAMBDA i : MkSeq(Cols(a), LAMBDA j : DSub(a[i][j], b[i][j])))

\* g.asDiagonal()
AsDiagonal(g) ==
    MkSeq(Len(g), LAMBDA i : MkSeq(Len(g), LAMBDA j : IF i = j THEN g[i] ELSE Zero))

Identity(n) ==
    MkSeq(n, LAMBDA i : MkSeq(n, LAMBDA j : IF i = j THEN Num(1) ELSE Zero))

Diagonal(m) == MkSeq(Rows(m), LAMBDA i : m[i][i])

Filled(r, c, e) == MkSeq(r, LAMBDA i : MkSeq(c, LAMBDA j : e))

\* Elimination of the augmented matrix [A | I] without pivoting, column j
\* onward.  Its pivots are those of the Cholesky factorisation (the squares
\* of the diagonal of L), so the factorisation succeeds exactly when every
\* pivot is positive, and then the right half ends as the inverse of A.
RECURSIVE Eliminate(_, _, _)
Eliminate(m, j, n) ==
    IF j > n THEN [ok |-> TRUE, m |-> m]
    ELSE LET p == m[j][j] IN
         IF ~DLess(Zero, p) THEN [ok |-> FALSE, m |-> m]
         ELSE LET rowj == MkSeq(2 * n, LAMBDA c : DDiv(m[j][c], p))
                  next == MkSeq(n, LAMBDA i :
                             IF i = j THEN rowj
                             ELSE MkSeq(2 * n, LAMBDA c :
                                     DSub(m[i][c], DMul(m[i][j], rowj[c]))))
              IN  Eliminate(next, j + 1, n)

\* xtgx.llt().solve(Identity): the inverse when xtgx is symmetric positive
\* definite.  Otherwise Eigen's LLT only records info() = NumericalIssue,
\* which nothing reads, and solve() returns a matrix computed from the
\* unfinished factor: junk is what the library leaves there.
LltSolveIdentity(a, junk) ==
    LET n == Rows(a)
        aug == MkSeq(n, LAMBDA i : a[i] \o Identity(n)[i])
        e == Eliminate(aug, 1, n)
    IN  IF e.ok
        THEN [info |-> "Success",
              xi |-> MkSeq(n, LAMBDA i : MkSeq(n, LAMBDA j : e.m[i][n + j]))]
        ELSE [info |-> "NumericalIssue", xi |-> Filled(n, n, junk)]

xtgx(x, g) == MatMul(MatMul(Transpose(x), AsDiagonal(g)), x)

invxtgx(x, g, junk) == LltSolveIdentity(xtgx(x, g), junk).xi

estimate_c_direct(x, y, g, xtgxi) ==
    MatMul(MatMul(MatMul(xtgxi, Transpose(x)), AsDiagonal(g)), y)

\* ------------------------------------------------- statistics (utils.hpp)
mean(a) == DDiv(SumSeq(a), Num(Len(a)))

cov(a, b) ==
    LET ma == mean(a)
        mb == mean(b)
    IN  DDiv(SumSeq(MkSeq(Len(a), LAMBDA i :
                        DMul(DSub(a[i], ma), DSub(b[i], mb)))),
             Num(Len(a)))

std(a) == DSqrt(cov(a, a))

cor(a, b) == DDiv(cov(a, b), DMul(std(a), std(b)))

\* ------------------------------------------------------ eval and grad
\* the cell-type and sample counts the loops run over
m_ncells == Cols(m_x)
m_nsamples == Cols(m_y)

\* X.rows = Y.rows, X.cols = C.rows, Y.cols = C.cols
ShapesAgree(x, y, c) ==
    /\ Rows(x) = Rows(y)
    /\ Cols(x) = Rows(c)
    /\ Cols(y) = Cols(c)

RECURSIVE evaluate_loop(_, _, _)
evaluate_loop(c_hat, icell, res) ==
    IF icell > m_ncells THEN res
    ELSE evaluate_loop(c_hat, icell + 1,
                       DSub(res, cor(Lift(m_c)[icell], c_hat[icell])))

evaluate(g, xtgxi) ==
    LET c_hat == estimate_c_direct(Lift(m_x), Lift(m_y), g, xtgxi)
    IN  DDiv(evaluate_loop(c_hat, 1, Zero), Num(m_ncells))

\* row icell of A (models.cc line 72)
grad_A_row(c_row, c_hat_row) ==
    LET std_c_hat == std(c_hat_row)
        std_c == std(c_row)
        mean_c_hat == mean(c_hat_row)
        mean_c == mean(c_row)
        n == Num(m_nsamples)
        f == DDiv(cov(c_row, c_hat_row), DMul(DMul(n, std_c_hat), std_c_hat))
    IN  MkSeq(Len(c_hat_row), LAMBDA j :
            DDiv(DSub(DMul(f, DSub(c_hat_row[j], mean_c_hat)),
                      DDiv(DSub(c_row[j], mean_c), n)),
                 DMul(std_c, std_c_hat)))

\* the diagonal of tmp, before the clamp
grad_raw(g, xtgxi) ==
    LET x == Lift(m_x)
        y == Lift(m_y)
        c == Lift(m_c)
        c_hat == estimate_c_direct(x, y, g, xtgxi)
        A == MkSeq(m_ncells, LAMBDA icell : grad_A_row(c[icell], c_hat[icell]))
        resid == MatSub(y, MatMul(MatMul(MatMul(MatMul(x, xtgxi), Transpose(x)),
                                         AsDiagonal(g)), y))
        tmp == MatMul(MatMul(MatMul(resid, Transpose(A)), xtgxi), Transpose(x))
    IN  Diagonal(tmp)

\* the value of gr when grad_explicit_inverse returns: whatever gr held and
\* whatever size it had, gr = tmp.diagonal() resizes and overwrites it
grad_explicit_inverse(g, xtgxi) == clampPos(grad_raw(g, xtgxi))

\* ------------------------------- the projection operators on their own
\* a model constructed from 1 x 1 data under every configuration
InitOps ==
    /\ ndebug = TRUE
    /\ constructed = TRUE
    /\ args = [x |-> <<<<1>>>>, y |-> <<<<1>>>>, c |-> <<<<1>>>>]
    /\ m_x = args.x /\ m_y = args.y /\ m_c = args.c
    /\ m_ngenes = 0
    /\ m_threshfn \in ThresholdFunctions
    /\ m_normfn \in NormFunctions
    /\ m_subspfn \in SubspaceFunctions
    /\ lltJunk = NaN
    /\ call = NoCall
    /\ first = NoCall

NextOps ==
    \/ ThresholdOn(Vecs)
    \/ NormConstraintOn(Vecs)
    \/ SubspaceConstraintOn(Vecs)
    \/ Return

SpecOps == InitOps /\ [][NextOps]_vars

\* ---------------------------------------------------- the whole model
\* the data a caller constructs a model from: design matrices (genes x cell
\* types), response matrices (genes x samples), reference matrices (cell
\* types x samples)
XData == { <<<<1>>, <<1>>>>,
           <<<<1, 0>>, <<0, 1>>>>,
           <<<<1, 1>>, <<1, 1>>>> }
YData == { <<<<1, 0, 0>>, <<0, 1, 0>>>>,
           <<<<1, 1, 1>>, <<1, 1, 1>>>>,
           <<<<1, 0, 0>>>> }
CData == { <<<<0, 1, 0>>>>,
           <<<<1, 1, 1>>>>,
           <<<<1, 0, 0>>, <<0, 1, 0>>>>,
           <<<<0, 1>>>> }

\* a gene weight: -1 or 1..MaxG
GVals == {Num(-1)} \cup {Num(i) : i \in 1..MaxG}

\* the output vectors a caller hands to grad: any size, any content
GrVecs == UNION {VecsOf({Num(1)}, n) : n \in 0..MaxLen}

\* what a read past the end of a matrix may yield
UBVals == {Num(0), Num(1)}

Init ==
    /\ ndebug \in BOOLEAN
    /\ lltJunk \in {NaN, Num(1)}
    /\ constructed = FALSE
    /\ args = [x |-> <<>>, y |-> <<>>, c |-> <<>>]
    /\ m_x = <<>> /\ m_y = <<>> /\ m_c = <<>>
    /\ m_ngenes = 0
    /\ m_threshfn = "SOFTMAX"
    /\ m_normfn = "NORM2"
    /\ m_subspfn = "POSITIVE"
    /\ call = NoCall
    /\ first = NoCall

\* GoertlerModel(x, y, c) : m_x(x), m_y(y), m_c(c) {}
\* m_ngenes has no initialiser: it holds whatever the memory held
GoertlerModel ==
    /\ ~constructed
    /\ \E x \in XData, y \in YData, c \in CData, junk \in 0..MaxGarbage :
          /\ args' = [x |-> x, y |-> y, c |-> c]
          /\ m_x' = x /\ m_y' = y /\ m_c' = c
          /\ m_ngenes' = junk
    /\ constructed' = TRUE
    /\ UNCHANGED <<ndebug, m_threshfn, m_normfn, m_subspfn, lltJunk, call, first>>

\* the matrix products, the rows read and the correlations taken stay inside
\* the stored matrices
InBounds ==
    /\ Rows(m_x) = Rows(m_y)
    /\ m_ncells <= Rows(m_c)
    /\ m_nsamples = Cols(m_c)

\* an assert() of eval/grad_explicit_inverse, or one of Eigen's own on the
\* sizes of a product or the index of a row, would fail
AssertFails(g) == Len(g) # m_ngenes \/ ~InBounds

GVecs == VecsOf(GVals, Rows(m_x))

\* first keeps the first eval or grad call: its argument, outcome and results
Record(f) == IF f = NoCall THEN [call' EXCEPT !.out0 = <<>>] ELSE f

\* eval(g): the score
eval ==
    /\ constructed
    /\ call = NoCall
    /\ \E g \in GVecs :
          LET c0 == [NoCall EXCEPT !.op = "eval", !.v = g] IN
          IF ~ndebug /\ AssertFails(g)
          THEN call' = [c0 EXCEPT !.outcome = "abort"]
          ELSE IF ~InBounds
          THEN \/ call' = [c0 EXCEPT !.outcome = "crash"]
               \/ \E u \in UBVals :
                     call' = [c0 EXCEPT !.outcome = "ok", !.ret = <<u>>]
          ELSE call' = [c0 EXCEPT !.outcome = "ok",
                           !.ret = <<evaluate(g, invxtgx(Lift(m_x), g, lltJunk))>>]
    /\ first' = Record(first)
    /\ UNCHANGED model

\* grad(gr, g): the gradient, written to gr
grad ==
    /\ constructed
    /\ call = NoCall
    /\ \E g \in GVecs, gr \in GrVecs :
          LET c0 == [NoCall EXCEPT !.op = "grad", !.v = g, !.out0 = gr,
                                   !.vout = gr] IN
          IF ~ndebug /\ AssertFails(g)
          THEN call' = [c0 EXCEPT !.outcome = "abort"]
          ELSE IF ~InBounds
          THEN \/ call' = [c0 EXCEPT !.outcome = "crash"]
               \/ \E u \in UBVals :
                     call' = [c0 EXCEPT !.outcome = "ok",
                                 !.vout = MkSeq(Rows(m_x), LAMBDA i : u)]
          ELSE call' = [c0 EXCEPT !.outcome = "ok",
                           !.vout = grad_explicit_inverse(
                                       g, invxtgx(Lift(m_x), g, lltJunk))]
    /\ first' = Record(first)
    /\ UNCHANGED model

\* dim(): static_cast<std::size_t>(m_ngenes)
dim ==
    /\ constructed
    /\ call = NoCall
    /\ call' = [NoCall EXCEPT !.op = "dim", !.outcome = "ok", !.n = m_ngenes]
    /\ UNCHANGED <<model, first>>

\* the vectors the projection operators are given beside eval and grad
ShortVecs == UNION {VecsOf(Vals, n) : n \in 0..1}

Next ==
    \/ GoertlerModel
    \/ eval
    \/ grad
    \/ dim
    \/ ThresholdOn(ShortVecs)
    \/ NormConstraintOn(ShortVecs)
    \/ SubspaceConstraintOn(ShortVecs)
    \/ Return

Spec == Init /\ [][Next]_vars

\* ------------------------------------------------------------- claims
Sgn(k) == IF k > 0 THEN 1 ELSE IF k < 0 THEN -1 ELSE 0

\* C1: under SOFTMAX and a threshold l >= 0, threshold(v, l) returns a vector
\* of v's length whose entry i is 0 when |v_i| <= l and sign(v_i)*(|v_i| - l)
\* when |v_i| > l, and v is left as it was.
C1_SoftThreshold ==
    (call.op = "threshold" /\ m_threshfn = "SOFTMAX" /\ call.lam >= 0) =>
        /\ call.outcome = "ok"
        /\ Len(call.ret) = Len(call.v)
        /\ call.vout = call.v
        /\ \A i \in 1..Len(call.v) : \A k \in (-MaxVal)..MaxVal :
              call.v[i] = Num(k) =>
                 call.ret[i] = IF Abs(k) <= call.lam THEN Num(0)
                               ELSE Num(Sgn(k) * (Abs(k) - call.lam))

C1_Witness ==
    /\ call.op = "threshold" /\ m_threshfn = "SOFTMAX" /\ call.lam = 1
    /\ call.v = <<Num(-2), Num(1)>>
    /\ call.ret = <<Num(-1), Num(0)>>

\* C2: under POSITIVE, subspace_constraint(v) returns a vector of v's length
\* with no negative entry, in which every entry >= 0 of v is unchanged and
\* every negative entry is 0; applying it to its own result changes nothing.
C2_PositiveOrthant ==
    (call.op = "subspace_constraint" /\ m_subspfn = "POSITIVE") =>
        /\ call.outcome = "ok"
        /\ Len(call.ret) = Len(call.v)
        /\ \A i \in 1..Len(call.v) :
              /\ call.ret[i] \notin {Num(k) : k \in (-MaxVal)..(-1)}
              /\ \A k \in (-MaxVal)..MaxVal :
                    call.v[i] = Num(k) =>
                       call.ret[i] = IF k >= 0 THEN Num(k) ELSE Num(0)
        /\ subspace_constraint(m_subspfn, call.ret).ret = call.ret

C2_Witness ==
    /\ call.op = "subspace_constraint" /\ m_subspfn = "POSITIVE"
    /\ call.v = <<Num(-2), Num(1)>>
    /\ call.ret = <<Num(0), Num(1)>>

\* C3: norm_constraint under NORM2 raises an error on an all-zero vector and
\* leaves no vector behind as if the call had succeeded.
C3_ZeroNormRaises ==
    (/\ call.op = "norm_constraint" /\ m_normfn = "NORM2"
     /\ Len(call.v) >= 1
     /\ \A i \in 1..Len(call.v) : call.v[i] = Num(0)) =>
        /\ call.outcome # "ok"
        /\ call.vout = call.v

\* C6: a dispatcher configured with a variant it does not support throws for
\* every input, returns nothing and leaves the input vector unchanged.
C6_UnimplementedVariant ==
    /\ (call.op = "threshold" /\ m_threshfn # "SOFTMAX") =>
          (call.outcome = "throw" /\ call.ret = <<>> /\ call.vout = call.v)
    /\ (call.op = "norm_constraint" /\ m_normfn \notin {"IDENTITY", "NORM2"}) =>
          (call.outcome = "throw" /\ call.ret = <<>> /\ call.vout = call.v)
    /\ (call.op = "subspace_constraint" /\ m_subspfn # "POSITIVE") =>
          (call.outcome = "throw" /\ call.ret = <<>> /\ call.vout = call.v)

C6_Witness ==
    /\ call.op = "threshold" /\ m_threshfn = "OTHER_THRESHOLD"
    /\ call.v = <<Num(2), Num(-1)>> /\ call.lam = 1
    /\ call.outcome = "throw" /\ call.ret = <<>>

\* the factorisation of X^T diag(g) X for the call's g
CallLlt == LltSolveIdentity(xtgx(Lift(m_x), call.v), lltJunk)

\* the estimate c_hat for the call's g
CallCHat == estimate_c_direct(Lift(m_x), Lift(m_y), call.v, CallLlt.xi)

\* all entries of the row are equal
ZeroVariance(row) == \A i, j \in 1..Len(row) : row[i] = row[j]

\* C4: eval(g) and grad(g) fail with an error whenever X^T diag(g) X is not
\* symmetric positive definite; no score and no gradient is returned then.
C4_NotPositiveDefiniteFails ==
    (/\ call.op \in {"eval", "grad"}
     /\ InBounds
     /\ CallLlt.info # "Success") => call.outcome # "ok"

\* C5: no model is constructed from matrices with X.rows # Y.rows,
\* X.cols # C.rows or Y.cols # C.cols, so every model eval or grad is
\* called on has the three shape equalities.
C5_ConstructorRejectsMismatch ==
    /\ constructed => ShapesAgree(args.x, args.y, args.c)
    /\ call.op \in {"eval", "grad"} => ShapesAgree(m_x, m_y, m_c)

\* C7: eval(g) and grad(g) report an error whenever a reference row C_i or
\* an estimated row c_hat_i has zero variance; no score or gradient is
\* returned then.
C7_DegenerateRowFails ==
    (/\ call.op \in {"eval", "grad"}
     /\ InBounds
     /\ CallLlt.info = "Success"
     /\ \E i \in 1..m_ncells :
           ZeroVariance(m_c[i]) \/ ZeroVariance(CallCHat[i])) =>
        call.outcome # "ok"

\* C8: after any sequence of calls the stored X, Y, C are those given to the
\* constructor, and an eval or grad call returns what the first such call
\* with the same g returned, whatever was called in between and whatever
\* the output vector held.
C8_PureAndFramed ==
    /\ constructed => (m_x = args.x /\ m_y = args.y /\ m_c = args.c)
    /\ (call.op \in {"eval", "grad"} /\ call.op = first.op /\ call.v = first.v) =>
          (/\ call.outcome = first.outcome
           /\ call.outcome = "ok" =>
                 (call.ret = first.ret /\ call.vout = first.vout))

\* C9: dim() returns the number of rows of X, and the vector grad writes has
\* exactly dim() entries whatever the size of the vector passed in.
C9_DimIsGeneCount ==
    /\ call.op = "dim" => call.n = Rows(args.x)
    /\ (call.op = "grad" /\ call.outcome = "ok") => Len(call.vout) = m_ngenes

\* C10: every entry of the vector grad returns is <= 0.
C10_GradientNonPositive ==
    (/\ call.op = "grad" /\ call.outcome = "ok"
     /\ InBounds
     /\ CallLlt.info = "Success") =>
        \A i \in 1..Len(call.vout) :
            ~call.vout[i].nan /\ SignTerms(call.vout[i].ts) <= 0

====
